---------------------------- MODULE Spec2Model ----------------------------
(***************************************************************************)
(* Hospital API: the resource handlers of the five routers found in the    *)
(* sources (appointments, doctors, departments and the two patients        *)
(* routers), the session gate in front of the mutating routes, and the     *)
(* shared store handle of db/connect.                                      *)
(*                                                                         *)
(* JavaScript values are records [t |-> type, n |-> code]:                 *)
(*   str  n = 0 is the empty string, n = 1 a non-empty, non-numeric,       *)
(*        non-hexadecimal string (such as "invalid-id"), n = 2 is "2"      *)
(*   hex  the 24 digit hexadecimal string that encodes ObjectId number n   *)
(*   num  the number n        nan  Number() of a non-numeric string        *)
(*   oid  the ObjectId number n                                            *)
(*   date the instant n of the server clock        null  null              *)
(* A document and a request body are functions from field names to values. *)
(***************************************************************************)
EXTENDS Integers, Sequences, FiniteSets, TLC

MaxDocs == 2
MaxTime == 1
MaxOmit == 1
MaxPatchKeys == 2
\* the requests in flight at once, where the handlers interleave
MaxConc == 2

VARIABLES db, proc, nodeEnv, traffic, store, nextId, now, pc, req, res, ops,
          calls, order

vars == <<db, proc, nodeEnv, traffic, store, nextId, now, pc, req, res, ops,
          calls, order>>

---------------------------------------------------------------------------
(* Values *)

Str(n) == [t |-> "str", n |-> n]
Hex(n) == [t |-> "hex", n |-> n]
Num(n) == [t |-> "num", n |-> n]
Oid(n) == [t |-> "oid", n |-> n]
Date(n) == [t |-> "date", n |-> n]
Null == [t |-> "null", n |-> 0]
NaN == [t |-> "nan", n |-> 0]

EmptyBody == [k \in {} |-> Null]

\* JavaScript truthiness, as used by !x, x && y and x || y
Truthy(v) ==
    /\ v.t \notin {"null", "nan"}
    /\ ~(v.t = "str" /\ v.n = 0)
    /\ ~(v.t = "num" /\ v.n = 0)

\* a destructured body key: undefined (absent) is falsy
Has(b, k) == k \in DOMAIN b /\ Truthy(b[k])

\* Number(x)
ToNumber(v) ==
    CASE v.t = "num" -> v
      [] v.t = "str" /\ v.n = 0 -> Num(0)
      [] v.t = "str" /\ v.n = 2 -> Num(2)
      [] v.t = "null" -> Num(0)
      [] OTHER -> NaN

\* ObjectId.isValid(s) for a string s: only the 24 digit hexadecimal strings
ObjectIdIsValid(v) == v.t = "hex"

\* new ObjectId(s)
NewObjectId(v) == Oid(v.n)

---------------------------------------------------------------------------
(* Routers *)

Routers == {"appointments", "doctors", "departments", "patients", "patientsAuth"}

Methods == {"LIST", "GET", "POST", "PUT", "DELETE"}

ImmutableKeys == {"_id", "createdAt", "updatedAt"}

\* the routes declared with the isAuthenticated middleware
Gated(r, m) == r # "patients" /\ m \in {"POST", "PUT", "DELETE"}

Required(r) ==
    CASE r = "appointments" -> {"appointmentDate", "appointmentTime", "reason", "status"}
      [] r = "doctors" -> {"name", "specialization", "phoneNumber"}
      [] r = "departments" -> {"name", "description", "floor", "headDoctor"}
      [] r = "patients" -> {"firstName", "lastName", "age", "phone"}
      [] r = "patientsAuth" -> {"firstName", "lastName", "age", "phoneNumber"}

OptionalStr(r) ==
    CASE r = "doctors" -> {"department"}
      [] r = "patients" -> {"address"}
      [] r = "patientsAuth" -> {"ailment", "address"}
      [] OTHER -> {}

Stamped(r) == r \in {"appointments", "departments"}


\* the fields the POST handler reads from the body
CreateKeys(r) ==
    Required(r) \cup OptionalStr(r) \cup (IF r = "patientsAuth" THEN {"doctorId"} ELSE {})

\* the body keys the requests of the model put in an update payload
PatchKeys(r) ==
    CASE r = "appointments" -> {"status"} \cup ImmutableKeys
      [] r = "doctors" -> {"name", "_id", "createdAt"}
      [] r = "departments" -> {"floor"} \cup ImmutableKeys
      [] r = "patients" -> {"address", "_id", "doctorId"}
      [] r = "patientsAuth" -> {"age", "doctorId", "address", "_id"}

---------------------------------------------------------------------------
(* Documents and the store operations *)

Merge(d, p) ==
    [k \in (DOMAIN d) \cup (DOMAIN p) |-> IF k \in DOMAIN p THEN p[k] ELSE d[k]]

Without(b, ks) == [k \in (DOMAIN b) \ ks |-> b[k]]

Only(b, ks) == [k \in (DOMAIN b) \cap ks |-> b[k]]

\* the positions of the documents of c whose _id is o
SelectSeqIdx(c, o) == {i \in 1..Len(c) : c[i]["_id"] = o}

\* a variant that returns the newest document first
FindNewestFirst(c) == [i \in 1..Len(c) |-> c[Len(c) + 1 - i]]

\* collection.find().toArray(): a collection scan, in the order of insertion
Find(c) == c

\* collection.findOne({ _id }): the first match, as a sequence of 0 or 1 documents
FindOne(c, o) ==
    LET m == SelectSeqIdx(c, o)
    IN IF m = {} THEN <<>> ELSE <<c[CHOOSE i \in m : \A j \in m : i <= j]>>

\* a variant that hands out the smallest identifier the collection does not hold
InsertOneReuse(c, doc, n) ==
    Append(c, Merge(doc, [k \in {"_id"} |->
        Oid(CHOOSE m \in 1..(Len(c) + 1) :
                /\ \A i \in 1..Len(c) : c[i]["_id"] # Oid(m)
                /\ \A l \in 1..(m - 1) : \E i \in 1..Len(c) : c[i]["_id"] = Oid(l))]))

\* collection.insertOne(doc): the store assigns the next identifier
InsertOne(c, doc, n) == Append(c, Merge(doc, [k \in {"_id"} |-> Oid(n)]))

\* a variant of the store that lets $set overwrite the identifier
UpdateOneSetsId(c, o, set) == FALSE

\* updateOne({ _id }, { $set }): the server refuses a $set that would change _id
UpdateOneThrows(c, o, set) ==
    /\ SelectSeqIdx(c, o) # {}
    /\ "_id" \in DOMAIN set
    /\ set["_id"] # o

UpdateOneMatched(c, o) == IF SelectSeqIdx(c, o) = {} THEN 0 ELSE 1

\* a variant that upserts: with no match the $set document is inserted
UpdateOneUpsert(c, o, set) ==
    IF SelectSeqIdx(c, o) = {}
    THEN Append(c, Merge(set, [k \in {"_id"} |-> o]))
    ELSE LET first == CHOOSE i \in SelectSeqIdx(c, o) : \A j \in SelectSeqIdx(c, o) : i <= j
         IN [i \in 1..Len(c) |-> IF i = first THEN Merge(c[i], set) ELSE c[i]]

\* a variant that replaces the matched document by the $set document
UpdateOneReplace(c, o, set) ==
    [i \in 1..Len(c) |->
        IF c[i]["_id"] = o THEN Merge(set, [k \in {"_id"} |-> o]) ELSE c[i]]

UpdateOne(c, o, set) ==
    LET m == SelectSeqIdx(c, o)
        first == CHOOSE i \in m : \A j \in m : i <= j
    IN IF m = {} THEN c
       ELSE [i \in 1..Len(c) |-> IF i = first THEN Merge(c[i], set) ELSE c[i]]

DeleteOneCount(c, o) == IF SelectSeqIdx(c, o) = {} THEN 0 ELSE 1

\* a variant with the filter {}: deleteMany
DeleteOneAll(c, o) == IF SelectSeqIdx(c, o) = {} THEN c ELSE <<>>

\* collection.deleteOne({ _id }): removes the first match
DeleteOne(c, o) ==
    LET m == SelectSeqIdx(c, o)
        first == CHOOSE i \in m : \A j \in m : i <= j
    IN IF m = {} THEN c
       ELSE [i \in 1..(Len(c) - 1) |-> IF i < first THEN c[i] ELSE c[i + 1]]


---------------------------------------------------------------------------
(* Responses *)

Reply(status, kind, error, id, docs) ==
    [status |-> status, kind |-> kind, error |-> error, id |-> id, docs |-> docs]

NoReply == Reply(0, "none", "", 0, <<>>)

Error(status, error) == Reply(status, "error", error, 0, <<>>)

Message(status) == Reply(status, "message", "", 0, <<>>)

Call(op, ok) == [op |-> op, ok |-> ok]

\* what a request leaves behind: the response, the store and the store calls made
Outcome(rs, st, n, o) == [res |-> rs, store |-> st, nextId |-> n, ops |-> o]

Rejected(rs) == Outcome(rs, store, nextId, <<>>)

Failed(op) == Outcome(Error(500, "Failed"), store, nextId, <<Call(op, FALSE)>>)

---------------------------------------------------------------------------
(* db/connect and middleware/isAuthenticated *)

\* getDB(): throws 'Database not initialized' while db is unset
getDBThrows == db = "undefined"

\* the session gate: next() for a request of an established session
isAuthenticated(session) == session

---------------------------------------------------------------------------
(* The documents that the create handlers build *)

\* a variant that stores an absent field as it is read, without the "" default
OrAsRead(b, k) == IF k \in DOMAIN b THEN b[k] ELSE Null

\* x || ""
OrEmpty(b, k) == IF Has(b, k) THEN b[k] ELSE Str(0)

newappointment(b) ==
    Merge(Only(b, Required("appointments")),
          [k \in {"createdAt", "updatedAt"} |-> Date(now)])

newDoctor(b) ==
    Merge(Only(b, Required("doctors")),
          [k \in {"department"} |-> OrEmpty(b, "department")])

newDepartment(b) ==
    Merge(Merge(Only(b, Required("departments")),
                [k \in {"floor"} |->
                    IF "floor" \in DOMAIN b THEN ToNumber(b["floor"]) ELSE NaN]),
          [k \in {"createdAt", "updatedAt"} |-> Date(now)])

\* routes/patients.js
newPatientOpen(b) ==
    Merge(Only(b, Required("patients")),
          [k \in {"address"} |-> OrEmpty(b, "address")])

\* the patients router that validates doctorId
newPatient(b) ==
    Merge(Only(b, Required("patientsAuth")),
          [k \in {"doctorId", "ailment", "address"} |->
              IF k = "doctorId"
              THEN (IF Has(b, k) THEN NewObjectId(b[k]) ELSE Null)
              ELSE OrEmpty(b, k)])

NewDoc(r, b) ==
    CASE r = "appointments" -> newappointment(b)
      [] r = "doctors" -> newDoctor(b)
      [] r = "departments" -> newDepartment(b)
      [] r = "patients" -> newPatientOpen(b)
      [] r = "patientsAuth" -> newPatient(b)

\* a variant that rejects only a body with none of the required fields
MissingRequiredAll(r, b) == \A k \in Required(r) : ~Has(b, k)

\* !a || !b || ... over the required fields
MissingRequired(r, b) == \E k \in Required(r) : ~Has(b, k)

\* doctorId && !ObjectId.isValid(doctorId)
BadDoctorId(r, b) ==
    r = "patientsAuth" /\ Has(b, "doctorId") /\ ~ObjectIdIsValid(b["doctorId"])

---------------------------------------------------------------------------
(* The $set documents that the update handlers build *)

\* a variant that strips the identifier only
StripIdOnly(b) == Without(b, {"_id"})

\* const { _id, createdAt, updatedAt, ...updatedData } = req.body
StripImmutable(b) == Without(b, ImmutableKeys)

\* a variant that does not refresh updatedAt
updatedDataNoStamp(b) == StripImmutable(b)

\* departments and appointments: the stripped payload with a fresh updatedAt
updatedData(b) ==
    Merge(StripImmutable(b), [k \in {"updatedAt"} |-> Date(now)])

\* a variant that applies every named field the body carries
updatedPatientAll(b) ==
    [k \in {f \in {"firstName", "lastName", "age", "phoneNumber", "doctorId",
                   "ailment", "address"} : f \in DOMAIN b} |->
        IF k = "doctorId" /\ Truthy(b[k]) THEN NewObjectId(b[k]) ELSE b[k]]

\* the patients router that validates doctorId: the truthy named fields only
updatedPatient(b) ==
    [k \in {f \in {"firstName", "lastName", "age", "phoneNumber", "doctorId",
                   "ailment", "address"} : Has(b, f)} |->
        IF k = "doctorId" THEN NewObjectId(b[k]) ELSE b[k]]

\* a variant that tests the raw body instead of the stripped payload
EmptyUpdateRaw(r, b) == Stamped(r) /\ DOMAIN b = {}

\* Object.keys(updatedData).length === 0, where the handler checks it
EmptyUpdate(r, b) == Stamped(r) /\ DOMAIN StripImmutable(b) = {}

SetDoc(r, b) ==
    CASE Stamped(r) -> updatedData(b)
      [] r = "patientsAuth" -> updatedPatient(b)
      [] OTHER -> b


\* server.js: app.listen runs in the then-callback of connectDB(), unless
\* NODE_ENV is "test"
Listening == proc = "serving" /\ nodeEnv # "test"

\* a request can reach the app through the listening socket, or, under test,
\* through the exported app (module.exports = app) while the process lives
Accepting == proc # "exited" /\ (Listening \/ nodeEnv = "test")

---------------------------------------------------------------------------
(* The handlers.  fault is the store's answer to the one store call of the  *)
(* request: TRUE when the call rejects (a store error).                    *)

\* a variant whose catch answers the empty array
GetAllHandlerSwallow(r, fault) ==
    IF getDBThrows \/ fault
    THEN Outcome(Reply(200, "array", "", 0, <<>>), store, nextId,
                 IF getDBThrows THEN <<>> ELSE <<Call("find", FALSE)>>)
    ELSE Outcome(Reply(200, "array", "", 0, Find(store[r])), store, nextId,
                 <<Call("find", TRUE)>>)

\* router.get("/")
GetAllHandler(r, fault) ==
    IF getDBThrows THEN Rejected(Error(500, "Failed"))
    ELSE IF fault THEN Failed("find")
    ELSE Outcome(Reply(200, "array", "", 0, Find(store[r])), store, nextId,
                 <<Call("find", TRUE)>>)

\* router.get("/:id")
GetByIdHandler(r, id, fault) ==
    IF getDBThrows THEN Rejected(Error(500, "Failed"))
    ELSE IF ~ObjectIdIsValid(id) THEN Rejected(Error(400, "InvalidId"))
    ELSE IF fault THEN Failed("findOne")
    ELSE LET found == FindOne(store[r], NewObjectId(id))
         IN Outcome(IF found = <<>> THEN Error(404, "NotFound")
                    ELSE Reply(200, "document", "", 0, found),
                    store, nextId, <<Call("findOne", TRUE)>>)

\* router.post("/")
PostHandler(r, b, fault) ==
    IF getDBThrows THEN Rejected(Error(500, "Failed"))
    ELSE IF MissingRequired(r, b) THEN Rejected(Error(400, "Required"))
    ELSE IF BadDoctorId(r, b) THEN Rejected(Error(400, "InvalidDoctorId"))
    ELSE IF fault THEN Failed("insertOne")
    ELSE Outcome(Reply(201, "created", "", nextId, <<>>),
                 [store EXCEPT ![r] = InsertOne(@, NewDoc(r, b), nextId)],
                 nextId + 1, <<Call("insertOne", TRUE)>>)

\* await updateOne(...) and the answer that follows it: set is the $set
\* document the handler built before the call
AwaitUpdateOne(r, id, set, fault) ==
    IF fault \/ UpdateOneThrows(store[r], NewObjectId(id), set)
    THEN Failed("updateOne")
    ELSE Outcome(IF UpdateOneMatched(store[r], NewObjectId(id)) = 0
                 THEN Error(404, "NotFound") ELSE Message(200),
                 [store EXCEPT ![r] = UpdateOne(@, NewObjectId(id), set)],
                 nextId, <<Call("updateOne", TRUE)>>)

\* router.put("/:id")
PutHandler(r, id, b, fault) ==
    IF getDBThrows THEN Rejected(Error(500, "Failed"))
    ELSE IF ~ObjectIdIsValid(id) THEN Rejected(Error(400, "InvalidId"))
    ELSE IF BadDoctorId(r, b) THEN Rejected(Error(400, "InvalidDoctorId"))
    ELSE IF EmptyUpdate(r, b) THEN Rejected(Error(400, "EmptyUpdate"))
    ELSE AwaitUpdateOne(r, id, SetDoc(r, b), fault)

\* a variant that answers 200 whatever deletedCount is
AwaitDeleteOneAlwaysOk(r, id, fault) ==
    IF fault THEN Failed("deleteOne")
    ELSE Outcome(Message(200),
                 [store EXCEPT ![r] = DeleteOne(@, NewObjectId(id))],
                 nextId, <<Call("deleteOne", TRUE)>>)

\* await deleteOne(...) and the answer that follows it
AwaitDeleteOne(r, id, fault) ==
    IF fault THEN Failed("deleteOne")
    ELSE Outcome(IF DeleteOneCount(store[r], NewObjectId(id)) = 0
                 THEN Error(404, "NotFound") ELSE Message(200),
                 [store EXCEPT ![r] = DeleteOne(@, NewObjectId(id))],
                 nextId, <<Call("deleteOne", TRUE)>>)

\* a variant without the identifier check
DeleteHandlerNoIdCheck(r, id, fault) ==
    IF getDBThrows THEN Rejected(Error(500, "Failed"))
    ELSE AwaitDeleteOne(r, id, fault)

\* router.delete("/:id")
DeleteHandler(r, id, fault) ==
    IF getDBThrows THEN Rejected(Error(500, "Failed"))
    ELSE IF ~ObjectIdIsValid(id) THEN Rejected(Error(400, "InvalidId"))
    ELSE AwaitDeleteOne(r, id, fault)

\* the route: the gate, where the route has one, then the handler
Route(rq, fault) ==
    IF Gated(rq.router, rq.method) /\ ~isAuthenticated(rq.session)
    THEN Rejected(Error(401, "Unauthenticated"))
    ELSE CASE rq.method = "LIST" -> GetAllHandler(rq.router, fault)
           [] rq.method = "GET" -> GetByIdHandler(rq.router, rq.id, fault)
           [] rq.method = "POST" -> PostHandler(rq.router, rq.body, fault)
           [] rq.method = "PUT" -> PutHandler(rq.router, rq.id, rq.body, fault)
           [] rq.method = "DELETE" -> DeleteHandler(rq.router, rq.id, fault)

---------------------------------------------------------------------------
(* The requests of the model *)

Request(r, m, id, session, b) ==
    [router |-> r, method |-> m, id |-> id, session |-> session, body |-> b]

NoRequest == Request("", "", Null, FALSE, EmptyBody)

KeyVals(k) ==
    CASE k \in {"age", "floor"} -> {Num(0), Num(2), Str(2)}
      [] k = "doctorId" -> {Str(1), Hex(1)}
      [] k \in ImmutableKeys -> {Str(1)}
      [] OTHER -> {Str(0), Str(1)}

RECURSIVE BodiesOver(_)
BodiesOver(K) ==
    IF K = {} THEN {EmptyBody}
    ELSE LET k == CHOOSE x \in K : TRUE
         IN {Merge(f, [j \in {k} |-> v]) : f \in BodiesOver(K \ {k}), v \in KeyVals(k)}

\* a malformed path id and the encodings of the identifiers 1..MaxDocs+1
PathIds == {Str(1)} \cup {Hex(n) : n \in 1..(MaxDocs + 1)}

\* create payloads: at most MaxOmit of the handler's fields absent or falsy
CreateBodies ==
    [r \in Routers |->
        {b \in UNION {BodiesOver(K) : K \in SUBSET CreateKeys(r)} :
            Cardinality({k \in CreateKeys(r) : ~Has(b, k)}) <= MaxOmit}]

\* update payloads: at most MaxPatchKeys keys
UpdateBodies ==
    [r \in Routers |->
        UNION {BodiesOver(K) : K \in {S \in SUBSET PatchKeys(r) : Cardinality(S) <= MaxPatchKeys}}]

Slots == 1..MaxConc

\* a handler in flight: its request, the $set document it built before its
\* await, its answer and store call, and the number of store calls that had
\* been made when it began
InFlight(stage, rq, set, rs, o, seen) ==
    [stage |-> stage, req |-> rq, set |-> set, res |-> rs, ops |-> o, seen |-> seen]

NoCall == InFlight("idle", NoRequest, EmptyBody, NoReply, <<>>, 0)

---------------------------------------------------------------------------
(* Actions.  A request is served in one step (pc idle -> answered) and    *)
(* Done ends it; the answered state shows the request, its response and   *)
(* its store calls next to the state the handler ran in, so the clock and *)
(* the connection move between requests only.                             *)

Init ==
    /\ db = "undefined"
    /\ proc = "starting"
    /\ nodeEnv \in {"test", "production"}
    /\ traffic \in Routers
    /\ store = [r \in Routers |-> <<>>]
    /\ nextId = 1
    /\ now = 0
    /\ pc = "idle"
    /\ req = NoRequest
    /\ res = NoReply
    /\ ops = <<>>
    /\ calls = [s \in Slots |-> NoCall]
    /\ order = <<>>

\* a variant that resolves without the assignment to db
connectDBNoAssign ==
    /\ proc = "starting"
    /\ pc = "idle"
    /\ proc' = "serving"
    /\ UNCHANGED <<nodeEnv, db, traffic, store, nextId, now, pc, req, res, ops, calls, order>>

\* connectDB() resolves: client.connect() succeeded and db is assigned
connectDB ==
    /\ proc = "starting"
    /\ pc = "idle"
    /\ db' = "handle"
    /\ proc' = "serving"
    /\ UNCHANGED <<nodeEnv, traffic, store, nextId, now, pc, req, res, ops, calls, order>>

\* a variant whose catch logs the error and returns: the promise resolves
connectDBFailsNoExit ==
    /\ proc = "starting"
    /\ pc = "idle"
    /\ proc' = "serving"
    /\ UNCHANGED <<nodeEnv, db, traffic, store, nextId, now, pc, req, res, ops, calls, order>>

\* connectDB() catches: process.exit(1)
connectDBFails ==
    /\ proc = "starting"
    /\ pc = "idle"
    /\ proc' = "exited"
    /\ UNCHANGED <<nodeEnv, db, traffic, store, nextId, now, pc, req, res, ops, calls, order>>

\* the server clock read by new Date(); only the stamped routers read it
Tick ==
    /\ proc # "exited"
    /\ Stamped(traffic)
    /\ pc = "idle"
    /\ now < MaxTime
    /\ now' = now + 1
    /\ UNCHANGED <<nodeEnv, db, proc, traffic, store, nextId, pc, req, res, ops, calls, order>>

Serve(rq, fault) ==
    /\ Accepting
    /\ pc = "idle"
    /\ rq.router = traffic
    /\ LET out == Route(rq, fault)
       IN /\ store' = out.store
          /\ nextId' = out.nextId
          /\ res' = out.res
          /\ ops' = out.ops
    /\ req' = rq
    /\ pc' = "answered"
    /\ UNCHANGED <<nodeEnv, db, proc, traffic, now, calls, order>>

\* the requests that can arrive now: one request at a time, on the router
\* that takes the traffic
Arrives(r) == Accepting /\ pc = "idle" /\ r = traffic

GetAll ==
    \E r \in Routers :
        /\ Arrives(r)
        /\ \E session \in BOOLEAN, fault \in BOOLEAN :
              Serve(Request(r, "LIST", Null, session, EmptyBody), fault)

GetById ==
    \E r \in Routers :
        /\ Arrives(r)
        /\ \E id \in PathIds, session \in BOOLEAN, fault \in BOOLEAN :
              Serve(Request(r, "GET", id, session, EmptyBody), fault)

Create ==
    /\ nextId <= MaxDocs
    /\ \E r \in Routers :
        /\ Arrives(r)
        /\ \E session \in BOOLEAN, fault \in BOOLEAN :
              \E b \in CreateBodies[r] : Serve(Request(r, "POST", Null, session, b), fault)

Update ==
    \E r \in Routers :
        /\ Arrives(r)
        /\ \E id \in PathIds, session \in BOOLEAN, fault \in BOOLEAN :
              \E b \in UpdateBodies[r] : Serve(Request(r, "PUT", id, session, b), fault)

Delete ==
    \E r \in Routers :
        /\ Arrives(r)
        /\ \E id \in PathIds, session \in BOOLEAN, fault \in BOOLEAN :
              Serve(Request(r, "DELETE", id, session, EmptyBody), fault)

\* the response is sent and the request is over
Done ==
    /\ pc = "answered"
    /\ pc' = "idle"
    /\ req' = NoRequest
    /\ res' = NoReply
    /\ ops' = <<>>
    /\ UNCHANGED <<nodeEnv, db, proc, traffic, store, nextId, now, calls, order>>

Next ==
    \/ connectDB
    \/ connectDBFails
    \/ Tick
    \/ GetAll
    \/ GetById
    \/ Create
    \/ Update
    \/ Delete
    \/ Done

Spec == Init /\ [][Next]_vars


---------------------------------------------------------------------------
(* Interleaved handlers.  An update or delete handler runs up to its await  *)
(* (the gate, getDB, the checks of the id and the payload, the $set         *)
(* document), the store applies its one call atomically, and the handler    *)
(* answers from the result of that call.  Handlers in flight interleave at  *)
(* the await.                                                               *)

\* a body with every required field, as a create accepts it
FullBody(r) ==
    [k \in Required(r) |-> IF k \in {"age", "floor"} THEN Num(2) ELSE Str(1)]

\* two required string fields of each router, for the concurrent updates
ConcKeys(r) ==
    CASE r = "appointments" -> {"reason", "status"}
      [] r = "doctors" -> {"name", "specialization"}
      [] r = "departments" -> {"name", "description"}
      [] OTHER -> {"firstName", "lastName"}

ConcBodies(r) == {[k \in K |-> Str(2)] : K \in SUBSET ConcKeys(r)}

\* the identifier of the existing document and one that matches nothing
ConcIds == {Hex(1), Hex(2)}

\* a variant that reads the document before the await and writes it back whole
CapturedWholeDoc(rq) ==
    IF rq.method # "PUT" THEN EmptyBody
    ELSE IF ObjectIdIsValid(rq.id)
            /\ SelectSeqIdx(store[rq.router], NewObjectId(rq.id)) # {}
         THEN Merge(FindOne(store[rq.router], NewObjectId(rq.id))[1],
                    SetDoc(rq.router, rq.body))
         ELSE SetDoc(rq.router, rq.body)

\* what an update handler holds across its await: the $set document
Captured(rq) ==
    IF rq.method = "PUT" THEN SetDoc(rq.router, rq.body) ELSE EmptyBody

\* after connectDB, with one document created in the collection of the router
InitConc ==
    /\ db = "handle"
    /\ proc = "serving"
    /\ nodeEnv = "production"
    /\ traffic \in Routers
    /\ now = 0
    /\ store = [r \in Routers |->
                  IF r = traffic THEN InsertOne(<<>>, NewDoc(r, FullBody(r)), 1) ELSE <<>>]
    /\ nextId = 2
    /\ pc = "idle"
    /\ req = NoRequest
    /\ res = NoReply
    /\ ops = <<>>
    /\ calls = [s \in Slots |-> NoCall]
    /\ order = <<>>

\* the handler of slot s runs up to its await, or answers before it
Begin(s, rq) ==
    /\ Accepting
    /\ calls[s].stage = "idle"
    /\ rq.router = traffic
    /\ LET out == Route(rq, FALSE)
       IN calls' = [calls EXCEPT ![s] =
                IF out.ops = <<>>
                THEN InFlight("answered", rq, EmptyBody, out.res, <<>>, Len(order))
                ELSE InFlight("awaiting", rq, Captured(rq), NoReply, <<>>, Len(order))]
    /\ UNCHANGED <<db, proc, nodeEnv, traffic, store, nextId, now, pc, req, res, ops, order>>

BeginUpdate ==
    \E s \in Slots :
        /\ calls[s].stage = "idle"
        /\ \E id \in ConcIds, session \in BOOLEAN, b \in ConcBodies(traffic) :
              Begin(s, Request(traffic, "PUT", id, session, b))

BeginDelete ==
    \E s \in Slots :
        /\ calls[s].stage = "idle"
        /\ \E id \in ConcIds, session \in BOOLEAN :
              Begin(s, Request(traffic, "DELETE", id, session, EmptyBody))

\* the store applies the call of slot s and the handler answers
StoreCall ==
    \E s \in Slots, fault \in BOOLEAN :
        /\ calls[s].stage = "awaiting"
        /\ LET rq == calls[s].req
               out == IF rq.method = "PUT"
                      THEN AwaitUpdateOne(rq.router, rq.id, calls[s].set, fault)
                      ELSE AwaitDeleteOne(rq.router, rq.id, fault)
           IN /\ store' = out.store
              /\ calls' = [calls EXCEPT ![s] =
                     InFlight("answered", rq, calls[s].set, out.res, out.ops, calls[s].seen)]
        /\ order' = Append(order, s)
        /\ UNCHANGED <<db, proc, nodeEnv, traffic, nextId, now, pc, req, res, ops>>

NextConc ==
    \/ BeginUpdate
    \/ BeginDelete
    \/ StoreCall
    \/ Tick

SpecConc == InitConc /\ [][NextConc]_vars

---------------------------------------------------------------------------
(* Vocabulary of the properties *)

Answered == pc = "answered"

\* the step that serves the request req'
Handling == pc = "idle" /\ pc' = "answered"

Mutating(rq) == rq.method \in {"POST", "PUT", "DELETE"}

ById(rq) == rq.method \in {"GET", "PUT", "DELETE"}

\* the request passes the gate of its route, if the route has one
Admitted(rq) == ~Gated(rq.router, rq.method) \/ rq.session

\* no store call of the request was answered with a store error
NoStoreError(o) == \A i \in 1..Len(o) : o[i].ok

Present(c, n) == \E i \in 1..Len(c) : c[i]["_id"] = Oid(n)

DocOf(c, n) == c[CHOOSE i \in 1..Len(c) : c[i]["_id"] = Oid(n)]

Ids(c) == {c[i]["_id"].n : i \in 1..Len(c)}

---------------------------------------------------------------------------
(* C1 *)

\* C1 (as claimed): on every router a POST, PUT or DELETE without a session
\* is answered 401 and makes no store call.  routes/patients.js declares its
\* mutating routes without the gate, so this fails there.
C1_MutationNeedsSession ==
    (Answered /\ Mutating(req) /\ ~req.session)
        => (res.status = 401 /\ res.kind = "error" /\ ops = <<>>)

---------------------------------------------------------------------------
(* C2 *)

\* C2 (as claimed): a get, update or delete by id whose path id is malformed
\* is answered 400 with an error and makes no store call, in every state.
C2_IdCheckedFirst ==
    (Answered /\ ById(req) /\ ~ObjectIdIsValid(req.id))
        => (res.status = 400 /\ res.kind = "error" /\ ops = <<>>)

\* C2 (amended): the identifier check follows the session gate and getDB():
\* a malformed path id never leads to a store call; the answer is 401 when
\* the gate rejects, 500 while the handle is not established, else 400 with
\* an error.
C2_IdCheckedAfterGateAndHandle ==
    (Answered /\ ById(req) /\ ~ObjectIdIsValid(req.id))
        => /\ ops = <<>>
           /\ res.kind = "error"
           /\ res.status = (IF ~Admitted(req) THEN 401
                            ELSE IF db = "undefined" THEN 500 ELSE 400)

C2_Witness ==
    /\ Answered /\ req.method = "DELETE" /\ ~ObjectIdIsValid(req.id)
    /\ Admitted(req) /\ db = "handle" /\ store[req.router] # <<>>
    /\ res.status = 400

---------------------------------------------------------------------------
(* C3 *)

\* the update payload passes the checks the handler makes before its store call
PayloadAccepted(rq) ==
    rq.method = "PUT" => (~EmptyUpdate(rq.router, rq.body) /\ ~BadDoctorId(rq.router, rq.body))

NoMatchCase(rq) ==
    /\ ById(rq) /\ ObjectIdIsValid(rq.id) /\ Admitted(rq) /\ db = "handle"
    /\ ~Present(store[rq.router], rq.id.n)

\* C3 (as claimed): a get, update or delete by a well-formed id that matches
\* no document is answered 404 with an error and leaves the store unchanged
\* (read for a request that passes the gate and that the store answers).
C3_NoMatchIs404 ==
    [][(Handling /\ NoMatchCase(req') /\ NoStoreError(ops'))
        => (res'.status = 404 /\ res'.kind = "error" /\ store' = store)]_vars

\* C3 (amended): as claimed, for an update whose payload passes the handler's
\* payload checks; an update with an empty stripped payload (departments,
\* appointments) or a malformed doctorId (patients) is answered 400 first.
C3_NoMatchIs404Amended ==
    [][(Handling /\ NoMatchCase(req') /\ NoStoreError(ops'))
        => /\ store' = store
           /\ res'.kind = "error"
           /\ res'.status = (IF PayloadAccepted(req') THEN 404 ELSE 400)]_vars

C3_Witness ==
    /\ Answered /\ req.method = "PUT" /\ ObjectIdIsValid(req.id)
    /\ ~Present(store[req.router], req.id.n) /\ store[req.router] # <<>>
    /\ DOMAIN req.body # {}
    /\ res.status = 404

---------------------------------------------------------------------------
(* C4 *)

\* C4: a create whose body lacks a required field of the router inserts
\* nothing, whatever the session and the state of the handle, and is answered
\* 400 when it passes the gate with the handle established.
C4_MissingRequiredNoInsert ==
    [][(Handling /\ req'.method = "POST"
            /\ \E k \in Required(req'.router) : k \notin DOMAIN req'.body)
        => /\ store' = store
           /\ nextId' = nextId
           /\ ops' = <<>>
           /\ (Admitted(req') /\ db = "handle")
                => (res'.status = 400 /\ res'.kind = "error")]_vars

C4_Witness ==
    /\ Answered /\ req.method = "POST" /\ Admitted(req) /\ db = "handle"
    /\ Cardinality(Required(req.router) \ DOMAIN req.body) = 1
    /\ res.status = 400


---------------------------------------------------------------------------
(* C5 *)

\* what get-by-id answers for each identifier in the current state
GetAnswer ==
    [r \in Routers, n \in 1..(MaxDocs + 1) |-> GetByIdHandler(r, Hex(n), FALSE).res]

AllIds == UNION {Ids(store[r]) : r \in Routers}

\* C5 (as claimed): an admitted create whose body has every required field
\* present, whatever its value, is answered 201 with a new id, and get-by-id
\* answers the created document: required fields as given, every optional
\* string field that was left out present as "".
C5_CreateAnyValues ==
    [][(Handling /\ req'.method = "POST" /\ Admitted(req') /\ db = "handle"
            /\ Required(req'.router) \subseteq DOMAIN req'.body
            /\ NoStoreError(ops'))
        => /\ res'.status = 201
           /\ res'.id \notin AllIds
           /\ Present(store'[req'.router], res'.id)
           /\ LET r == req'.router
                  b == req'.body
                  d == DocOf(store'[r], res'.id)
              IN /\ \A k \in Required(r) : d[k] = b[k]
                 /\ \A k \in OptionalStr(r) \ DOMAIN b : k \in DOMAIN d /\ d[k] = Str(0)
                 /\ GetAnswer'[r, res'.id] = Reply(200, "document", "", 0, <<d>>)]_vars

\* C5 (amended): an admitted create whose body has every required field with
\* a truthy value (and, on the patients router that reads doctorId, no
\* malformed doctorId) is answered 201 with a new id, and get-by-id answers
\* the created document: required fields as given, except that a
\* department's floor is stored as Number(floor); every optional string
\* field that was left out present as "".
C5_CreateTruthyValues ==
    [][(Handling /\ req'.method = "POST" /\ Admitted(req') /\ db = "handle"
            /\ (\A k \in Required(req'.router) : Has(req'.body, k))
            /\ ~BadDoctorId(req'.router, req'.body)
            /\ NoStoreError(ops'))
        => /\ res'.status = 201
           /\ res'.id \notin AllIds
           /\ Present(store'[req'.router], res'.id)
           /\ LET r == req'.router
                  b == req'.body
                  d == DocOf(store'[r], res'.id)
              IN /\ \A k \in Required(r) :
                        d[k] = (IF r = "departments" /\ k = "floor"
                                THEN ToNumber(b[k]) ELSE b[k])
                 /\ \A k \in OptionalStr(r) \ DOMAIN b : k \in DOMAIN d /\ d[k] = Str(0)
                 /\ GetAnswer'[r, res'.id] = Reply(200, "document", "", 0, <<d>>)]_vars

C5_Witness ==
    /\ Answered /\ req.method = "POST" /\ res.status = 201
    /\ OptionalStr(req.router) \ DOMAIN req.body # {}
    /\ Present(store[req.router], res.id)

---------------------------------------------------------------------------
(* C6 *)

EmptyOnceStripped(rq) ==
    /\ rq.method = "PUT" /\ Admitted(rq) /\ db = "handle"
    /\ DOMAIN rq.body \subseteq ImmutableKeys

\* C6 (as claimed): on every router an update whose payload is empty once
\* _id, createdAt and updatedAt are stripped is answered 400, makes no store
\* call and leaves the store as it was.
C6_EmptyUpdateRejected ==
    [][(Handling /\ EmptyOnceStripped(req'))
        => (res'.status = 400 /\ ops' = <<>> /\ store' = store)]_vars

\* C6 (amended): the same, for departments and appointments only; the
\* doctors router and both patients routers hand such a payload to the store.
C6_EmptyUpdateRejectedStamped ==
    [][(Handling /\ EmptyOnceStripped(req') /\ Stamped(req'.router))
        => (res'.status = 400 /\ ops' = <<>> /\ store' = store)]_vars

C6_Witness ==
    /\ Answered /\ req.method = "PUT" /\ Stamped(req.router) /\ Admitted(req)
    /\ db = "handle" /\ ObjectIdIsValid(req.id)
    /\ Present(store[req.router], req.id.n)
    /\ DOMAIN req.body # {} /\ DOMAIN req.body \subseteq ImmutableKeys
    /\ res.status = 400 /\ res.error = "EmptyUpdate"

---------------------------------------------------------------------------
(* C7 *)

PatientFields ==
    {"firstName", "lastName", "age", "phoneNumber", "doctorId", "ailment", "address"}

\* the keys of payload P that the update of router r applies
Applied(r, P) ==
    CASE Stamped(r) -> DOMAIN P \ ImmutableKeys
      [] r = "patientsAuth" -> {k \in PatientFields : Has(P, k)}
      [] OTHER -> DOMAIN P

AppliedValue(r, P, k) ==
    IF r = "patientsAuth" /\ k = "doctorId" THEN NewObjectId(P[k]) ELSE P[k]

Untouched(r, before, after, keys) ==
    /\ DOMAIN after = DOMAIN before \cup keys \cup (IF Stamped(r) THEN {"updatedAt"} ELSE {})
    /\ \A k \in DOMAIN before \ keys :
          (k = "updatedAt" /\ Stamped(r)) \/ after[k] = before[k]

OthersSame(r, n) ==
    /\ Len(store'[r]) = Len(store[r])
    /\ \A i \in 1..Len(store[r]) :
          store[r][i]["_id"] # Oid(n) => store'[r][i] = store[r][i]
    /\ \A q \in Routers \ {r} : store'[q] = store[q]

\* C7 (as claimed): after a successful update with payload P every field
\* named in P holds the value given in P and every other field (other than
\* updatedAt) holds its previous value.
C7_UpdateMergesPayload ==
    [][(Handling /\ req'.method = "PUT" /\ res'.status = 200)
        => LET r == req'.router
               n == req'.id.n
               P == req'.body
           IN /\ Present(store[r], n) /\ Present(store'[r], n)
              /\ \A k \in DOMAIN P :
                    k \in DOMAIN DocOf(store'[r], n) /\ DocOf(store'[r], n)[k] = P[k]
              /\ \A k \in DOMAIN DocOf(store[r], n) \ (DOMAIN P \cup {"updatedAt"}) :
                    k \in DOMAIN DocOf(store'[r], n)
                    /\ DocOf(store'[r], n)[k] = DocOf(store[r], n)[k]]_vars

\* C7 (amended): after a successful update with payload P every field of P
\* that the router applies holds the value given in P, and every other field
\* (other than the updatedAt of departments and appointments) holds its
\* previous value.  Departments and appointments do not apply _id, createdAt
\* and updatedAt; the patients router that reads doctorId applies only its
\* seven named fields, only where the value is truthy, and stores doctorId
\* as an ObjectId; the doctors router and routes/patients.js apply all of P.
C7_UpdateMergesApplied ==
    [][(Handling /\ req'.method = "PUT" /\ res'.status = 200)
        => LET r == req'.router
               n == req'.id.n
               P == req'.body
           IN /\ Present(store[r], n) /\ Present(store'[r], n)
              /\ \A k \in Applied(r, P) :
                    k \in DOMAIN DocOf(store'[r], n)
                    /\ DocOf(store'[r], n)[k] = AppliedValue(r, P, k)
              /\ Untouched(r, DocOf(store[r], n), DocOf(store'[r], n), Applied(r, P))
              /\ OthersSame(r, n)]_vars

C7_Witness ==
    /\ Answered /\ req.method = "PUT" /\ res.status = 200
    /\ Cardinality(DOMAIN req.body) = 2
    /\ Len(store[req.router]) = 2
    /\ \E k \in DOMAIN req.body :
          k \notin ImmutableKeys /\ DocOf(store[req.router], req.id.n)[k] = req.body[k]


---------------------------------------------------------------------------
(* C8 *)

\* the identifiers that were assigned to a document and that no collection holds now
DeletedIds == {n \in 1..(MaxDocs + 1) : n < nextId /\ n \notin AllIds}

Deleted(n) == n \in DeletedIds

DeleteOfExisting(rq) ==
    /\ rq.method = "DELETE" /\ Admitted(rq) /\ db = "handle"
    /\ ObjectIdIsValid(rq.id) /\ Present(store[rq.router], rq.id.n)

AfterDelete(rq) ==
    /\ ById(rq) /\ Admitted(rq) /\ db = "handle"
    /\ ObjectIdIsValid(rq.id) /\ Deleted(rq.id.n)

\* C8 (as claimed): the delete of an existing id is answered 200 and removes
\* the document; a deleted identifier never comes back, whatever is created
\* afterwards; every later get, update or delete of it is answered 404 (read
\* for requests that pass the gate and that the store answers).
C8_DeleteIsFinal ==
    [][/\ (Handling /\ DeleteOfExisting(req') /\ NoStoreError(ops'))
            => (res'.status = 200 /\ req'.id.n \in DeletedIds')
       /\ \A n \in 1..(MaxDocs + 1) : n \in DeletedIds => n \in DeletedIds'
       /\ (Handling /\ AfterDelete(req') /\ NoStoreError(ops'))
            => res'.status = 404]_vars

\* C8 (amended): as claimed, except that a later update of the deleted id
\* whose payload fails the handler's payload checks (empty once stripped on
\* departments and appointments, malformed doctorId on patients) is answered
\* 400; no later request on the id is answered 200.
C8_DeleteIsFinalAmended ==
    [][/\ (Handling /\ DeleteOfExisting(req') /\ NoStoreError(ops'))
            => (res'.status = 200 /\ req'.id.n \in DeletedIds')
       /\ \A n \in 1..(MaxDocs + 1) : n \in DeletedIds => n \in DeletedIds'
       /\ (Handling /\ AfterDelete(req') /\ NoStoreError(ops'))
            => res'.status = (IF PayloadAccepted(req') THEN 404 ELSE 400)]_vars

\* a request on a deleted id, after a later create in the same collection
C8_Witness ==
    /\ Answered /\ ById(req) /\ ObjectIdIsValid(req.id) /\ Deleted(req.id.n)
    /\ \E m \in Ids(store[req.router]) : m > req.id.n
    /\ res.status = 404

---------------------------------------------------------------------------
(* C9 *)

StampedRouters == {r \in Routers : Stamped(r)}

\* C9: on departments and appointments a create sets createdAt to the clock
\* reading of the create, and no step changes the createdAt of a document,
\* updates whose payload carries createdAt included.
C9_CreatedAtImmutable ==
    [][/\ (Handling /\ req'.method = "POST" /\ res'.status = 201 /\ Stamped(req'.router))
            => DocOf(store'[req'.router], res'.id)["createdAt"] = Date(now)
       /\ \A r \in StampedRouters : \A n \in Ids(store[r]) \cap Ids(store'[r]) :
            /\ "createdAt" \in DOMAIN DocOf(store'[r], n)
            /\ DocOf(store'[r], n)["createdAt"] = DocOf(store[r], n)["createdAt"]]_vars

\* a successful update whose payload carried createdAt, at a later clock reading
C9_Witness ==
    /\ Answered /\ req.method = "PUT" /\ Stamped(req.router) /\ res.status = 200
    /\ "createdAt" \in DOMAIN req.body
    /\ DocOf(store[req.router], req.id.n)["createdAt"] = Date(0)
    /\ now > 0

---------------------------------------------------------------------------
(* C10 *)

StampedUpdate(rq, rs) == rq.method = "PUT" /\ Stamped(rq.router) /\ rs.status = 200

---------------------------------------------------------------------------
(* C11 *)

\* the identifiers of a collection, by position
IdSeq(c) == [i \in 1..Len(c) |-> c[i]["_id"]]

UniqueIds(c) == \A i, j \in 1..Len(c) : c[i]["_id"] = c[j]["_id"] => i = j

\* C11: in every state each document carries an ObjectId that no other
\* document of its collection carries, and no update changes the identifier
\* of any document, whatever its answer and whatever its payload (an _id key
\* included).
C11_IdUniqueImmutable ==
    [][/\ \A r \in Routers :
            /\ UniqueIds(store'[r])
            /\ \A i \in 1..Len(store'[r]) : store'[r][i]["_id"].t = "oid"
       /\ (Handling /\ req'.method = "PUT")
            => \A r \in Routers : IdSeq(store'[r]) = IdSeq(store[r])]_vars

\* an update of an existing doctor or patient whose payload carries _id and
\* that the store was asked to apply
C11_Witness ==
    /\ Answered /\ req.method = "PUT" /\ req.router \in {"doctors", "patients"}
    /\ "_id" \in DOMAIN req.body /\ Cardinality(DOMAIN req.body) = 2
    /\ ObjectIdIsValid(req.id) /\ Present(store[req.router], req.id.n)
    /\ Len(store[req.router]) = 2
    /\ ops = <<Call("updateOne", FALSE)>>

---------------------------------------------------------------------------
(* C12 *)

\* C12: the identifiers of a collection change only by a create answered 201,
\* which adds exactly the one new identifier it returns, and by a delete
\* answered 200, which removes exactly the addressed identifier; every other
\* step leaves them as they were, and no request changes another collection.
C12_IdsChangeByCreateDelete ==
    [][\A r \in Routers :
          IF Handling /\ req'.router = r /\ req'.method = "POST" /\ res'.status = 201
          THEN /\ res'.id \notin Ids(store[r])
               /\ Ids(store'[r]) = Ids(store[r]) \cup {res'.id}
               /\ Len(store'[r]) = Len(store[r]) + 1
          ELSE IF Handling /\ req'.router = r /\ req'.method = "DELETE" /\ res'.status = 200
          THEN /\ req'.id.n \in Ids(store[r])
               /\ Ids(store'[r]) = Ids(store[r]) \ {req'.id.n}
               /\ Len(store'[r]) = Len(store[r]) - 1
          ELSE /\ Ids(store'[r]) = Ids(store[r])
               /\ Len(store'[r]) = Len(store[r])
               /\ (~Handling \/ req'.router # r) => store'[r] = store[r]]_vars

\* a delete answered 200 that left the other document of the collection
C12_Witness ==
    /\ Answered /\ req.method = "DELETE" /\ res.status = 200
    /\ Len(store[req.router]) = 1
    /\ req.id.n \notin Ids(store[req.router])

---------------------------------------------------------------------------
(* C13 *)

\* C13: a list request, with the handle established and the store answering,
\* is answered 200 with an array holding exactly the documents of the
\* collection, oldest first, the empty array for the empty collection, and
\* changes nothing.
C13_ListReturnsAll ==
    [][(Handling /\ req'.method = "LIST" /\ db = "handle" /\ NoStoreError(ops'))
        => /\ res'.status = 200 /\ res'.kind = "array"
           /\ res'.docs = store[req'.router]
           /\ \A i, j \in 1..Len(res'.docs) :
                 i < j => res'.docs[i]["_id"].n < res'.docs[j]["_id"].n
           /\ store' = store]_vars

C13_Witness ==
    /\ Answered /\ req.method = "LIST" /\ res.status = 200
    /\ Len(res.docs) = 2 /\ res.docs = store[req.router]

---------------------------------------------------------------------------
(* C14 *)

\* C14 (as claimed): a request is handled only once connectDB has completed
\* with success.
C14_ServesOnlyAfterConnect == Answered => (proc = "serving" /\ db = "handle")

\* C14 (amended): the server listens only once connectDB has completed with
\* success, so a request that arrives through the listening socket is handled
\* with the handle established; a failed connection ends the process, which
\* handles no request from then on and never comes back; outside test mode
\* no request is handled before the connection.  Under NODE_ENV "test" the
\* exported app handles requests before connectDB completes.
C14_ListensOnlyAfterConnect ==
    [][/\ Listening' => db' = "handle"
       /\ (Handling /\ nodeEnv # "test") => (Listening /\ db = "handle")
       /\ proc = "serving" => proc' = "serving"
       /\ proc = "exited" => (proc' = "exited" /\ ~Handling /\ store' = store)
       /\ (proc' = "exited" /\ nodeEnv # "test") => (store' = [r \in Routers |-> <<>>] /\ nextId' = 1)
       /\ nodeEnv' = nodeEnv]_vars

\* outside test mode: a create served after the connection
C14_Witness ==
    /\ Answered /\ nodeEnv = "production" /\ proc = "serving"
    /\ req.method = "POST" /\ res.status = 201

---------------------------------------------------------------------------
(* C15 *)

\* the answer of a handler whose getDB() threw: 500 and no store call
GetDBFailure(rs, o) == rs = Error(500, "Failed") /\ o = <<>>

\* C15: getDB throws in every handler that runs before connectDB has
\* completed and returns the handle in every handler that runs afterwards;
\* db is unset until connectDB completes and is the handle from then on: it
\* is assigned once, by connectDB, and no request changes it.
C15_HandleAssignedOnce ==
    [][/\ (Handling /\ Admitted(req'))
            => (GetDBFailure(res', ops') <=> proc = "starting")
       /\ (proc' = "starting" => db' = "undefined")
       /\ (proc' = "serving" => db' = "handle")
       /\ (db' # db) => (db = "undefined" /\ db' = "handle" /\ proc = "starting" /\ ~Handling)
       /\ Handling => db' = db]_vars

\* an admitted update that ran before the connection
C15_Witness ==
    /\ Answered /\ req.method = "PUT" /\ req.session /\ ObjectIdIsValid(req.id)
    /\ DOMAIN req.body # {}
    /\ proc = "starting" /\ GetDBFailure(res, ops)

---------------------------------------------------------------------------
(* C16 *)

\* the handler's store access failed: getDB() threw or the store call rejected
StoreAccessFailed(rq, o) ==
    /\ Admitted(rq)
    /\ (db = "undefined" \/ \E i \in 1..Len(o) : ~o[i].ok)

\* C16: on every route a request whose store access fails is answered 500
\* with the handler's fixed error body and changes nothing; a request makes
\* at most one store call, none after a failed one, and every handled request
\* has exactly its one response.
C16_StoreFailureIs500 ==
    [][Handling
        => /\ StoreAccessFailed(req', ops')
                => (res' = Error(500, "Failed") /\ store' = store /\ nextId' = nextId)
           /\ Len(ops') <= 1
           /\ res'.kind # "none"
           /\ res'.status = 500 => StoreAccessFailed(req', ops')]_vars

\* a store error on each kind of store call is covered; here: a failed insert
C16_Witness ==
    /\ Answered /\ req.method = "POST" /\ db = "handle"
    /\ ops = <<Call("insertOne", FALSE)>> /\ res.status = 500
    /\ store[req.router] # <<>>

---------------------------------------------------------------------------
(* C17 *)

PatientRouters == {"patients", "patientsAuth"}

\* a patient create or update that reaches the handler's payload checks with
\* a doctorId in its body
CarriesDoctorId(rq) ==
    /\ rq.router \in PatientRouters /\ rq.method \in {"POST", "PUT"}
    /\ Admitted(rq) /\ db = "handle"
    /\ rq.method = "POST" => ~MissingRequired(rq.router, rq.body)
    /\ rq.method = "PUT" => ObjectIdIsValid(rq.id)
    /\ "doctorId" \in DOMAIN rq.body

\* C17 (as claimed): a patient create or update whose body carries a
\* malformed doctorId is answered 400 and makes no store call; one that
\* carries a well-formed doctorId and succeeds stores it as an ObjectId.
\* routes/patients.js neither validates nor converts doctorId.
C17_DoctorIdValidated ==
    [][(Handling /\ CarriesDoctorId(req'))
        => IF ~ObjectIdIsValid(req'.body["doctorId"])
           THEN res'.status = 400 /\ ops' = <<>> /\ store' = store
           ELSE res'.status \in {200, 201}
                => LET n == IF req'.method = "POST" THEN res'.id ELSE req'.id.n
                   IN DocOf(store'[req'.router], n)["doctorId"]
                          = NewObjectId(req'.body["doctorId"])]_vars

---------------------------------------------------------------------------
(* C18 *)

\* slot s has answered a request of method m on identifier n whose store
\* call the store answered
Settled(s, m, n) ==
    /\ calls[s].stage = "answered"
    /\ calls[s].req.method = m /\ calls[s].req.id = Hex(n)
    /\ Len(calls[s].ops) = 1 /\ calls[s].ops[1].ok

\* the position of the store call of slot s among the store calls
Pos(s) == CHOOSE i \in 1..Len(order) : order[i] = s

\* the handlers of s and t were both in flight at some moment
Overlap(s, t) == calls[s].seen < Pos(t) /\ calls[t].seen < Pos(s)

\* the deletes of the existing document 1 that the store has answered
SettledDeletes == {s \in Slots : Settled(s, "DELETE", 1)}

\* C18: of the admitted deletes of one existing document that run
\* concurrently and that the store answers, exactly one is answered 200 and
\* every other 404, in every interleaving, and the document is absent.
C18_OneDeleteWins ==
    SettledDeletes # {}
        => /\ Cardinality({s \in SettledDeletes : calls[s].res.status = 200}) = 1
           /\ \A s \in SettledDeletes : calls[s].res.status \in {200, 404}
           /\ ~Present(store[traffic], 1)

\* two deletes of document 1, both begun before either store call
C18_Witness ==
    /\ SettledDeletes = {1, 2}
    /\ Overlap(1, 2)
    /\ calls[1].res.status = 404 /\ calls[2].res.status = 200

---------------------------------------------------------------------------
(* C19 *)

\* the updates of document 1 that were answered 200
AppliedUpdates == {s \in Slots : Settled(s, "PUT", 1) /\ calls[s].res.status = 200}

\* C19: every payload field that an update answered 200 applied holds the
\* value of that payload unless the payload of a later update answered 200
\* named the same field, so
\* concurrent updates of disjoint fields all take effect; an update whose
\* store call the store answers is answered 200 when its call came before
\* every successful delete of the id and 404 when it came after one; a
\* deleted document stays absent.
C19_NoLostUpdate ==
    /\ Present(store[traffic], 1)
          => \A s \in AppliedUpdates :
                \A k \in Applied(traffic, calls[s].req.body) :
                    \/ DocOf(store[traffic], 1)[k]
                           = AppliedValue(traffic, calls[s].req.body, k)
                    \/ \E t \in AppliedUpdates :
                          /\ Pos(s) < Pos(t)
                          /\ k \in Applied(traffic, calls[t].req.body)
    /\ \A s \in Slots : Settled(s, "PUT", 1)
          => calls[s].res.status =
                (IF \E t \in SettledDeletes :
                        calls[t].res.status = 200 /\ Pos(t) < Pos(s)
                 THEN 404 ELSE 200)
    /\ (\E t \in SettledDeletes : calls[t].res.status = 200)
          => ~Present(store[traffic], 1)

\* two overlapping updates of document 1 that name different fields
C19_Witness ==
    /\ AppliedUpdates = {1, 2}
    /\ Overlap(1, 2)
    /\ Cardinality(DOMAIN calls[1].req.body) = 1
    /\ Cardinality(DOMAIN calls[2].req.body) = 1
    /\ DOMAIN calls[1].req.body # DOMAIN calls[2].req.body
    /\ \A k \in ConcKeys(traffic) : DocOf(store[traffic], 1)[k] = Str(2)

---------------------------------------------------------------------------
(* C20 *)

\* the field rules that the create of router r enforces on the document it
\* stores: every required field truthy, a department's floor a number
ValidAsCreated(r, d) ==
    /\ \A k \in Required(r) : k \in DOMAIN d /\ Truthy(d[k])
    /\ r = "departments" => d["floor"].t \in {"num", "nan"}

=============================================================================
